---- MODULE Spec2Model ----
(***************************************************************************)
(* Model of src/match.py: the rule-based matcher between transactions and  *)
(* attachments.  Every function of the module is a pure function and is    *)
(* modelled as an operator computed the way the code computes it; the      *)
(* state machines below draw inputs in Init and apply the functions.       *)
(*                                                                         *)
(* Python values are tagged records:                                       *)
(*   None            [k |-> "none"]                                        *)
(*   str             [k |-> "str", s |-> <<one-character strings>>]        *)
(*   int / float     [k |-> "num", n |-> integer value]                    *)
(*   int beyond the float range (10**400)   [k |-> "bigint"]               *)
(*   bool            [k |-> "bool", b |-> BOOLEAN]                         *)
(*   dict (the attachment's data payload)   [k |-> "dict", ...keys]        *)
(*   a key that is not in the dict          [k |-> "missing"]              *)
(* and a raised exception is [k |-> "raise", exc |-> its class].           *)
(***************************************************************************)
EXTENDS Integers, Sequences, FiniteSets, TLC

VARIABLES
    item_to_match,  \* the transaction or attachment handed to the operation
    candidates,     \* the list it is matched against
    name,           \* the argument of _normalize_name (name normalization runs)
    called,         \* which operation has been applied ("none": not yet)
    result          \* what the operation returned or raised

vars == <<item_to_match, candidates, name, called, result>>

\* ---------------------------------------------------------------- bounds

MaxCands == 2

MaxNameLen == 3

\* ---------------------------------------------------------------- values

None == [k |-> "none"]

Missing == [k |-> "missing"]

BigInt == [k |-> "bigint"]

Str(s) == [k |-> "str", s |-> s]

Num(n) == [k |-> "num", n |-> n]

Bool(b) == [k |-> "bool", b |-> b]

Raise(e) == [k |-> "raise", exc |-> e]

IsRaise(v) == v.k = "raise"

\* F applied to the value of v: v is evaluated once and F reads the value
\* (Python evaluates an assignment's right-hand side once).
Then(v, F(_)) == CHOOSE y \in {F(x) : x \in {v}} : TRUE

\* Python truthiness (`if not x`) of a field value: None, "", 0 and False are false.
Truthy(v) ==
    CASE v.k = "none" -> FALSE
      [] v.k = "str" -> v.s # <<>>
      [] v.k = "num" -> v.n # 0
      [] v.k = "bool" -> v.b
      [] OTHER -> TRUE

\* ---------------------------------------------------------------- text

LowerSeq ==
    << "a", "b", "c", "d", "e", "f", "g", "h", "i", "j", "k", "l", "m",
       "n", "o", "p", "q", "r", "s", "t", "u", "v", "w", "x", "y", "z",
       "ä", "ö", "å", "é" >>

UpperSeq ==
    << "A", "B", "C", "D", "E", "F", "G", "H", "I", "J", "K", "L", "M",
       "N", "O", "P", "Q", "R", "S", "T", "U", "V", "W", "X", "Y", "Z",
       "Ä", "Ö", "Å", "É" >>

DigitSeq == << "0", "1", "2", "3", "4", "5", "6", "7", "8", "9" >>

Range(seq) == {seq[i] : i \in DOMAIN seq}

\* \s of the re module.
IsSpace(c) == c \in {" ", "\t", "\n"}

Digits == Range(DigitSeq)

WordChars == Range(LowerSeq) \cup Range(UpperSeq) \cup Digits \cup {"_"}

KeptChars == (Range(LowerSeq) \ {"é"}) \cup Digits

LowerOf == [c \in Range(UpperSeq) |-> LowerSeq[CHOOSE i \in DOMAIN UpperSeq : UpperSeq[i] = c]]

\* \w of the re module on str patterns: Unicode letters, digits, underscore.
IsWord(c) == c \in WordChars

\* The class [a-z0-9äöå] of line 97.
IsKept(c) == c \in KeptChars

\* str.lower() on one character.
LowerChar(c) == IF c \in DOMAIN LowerOf THEN LowerOf[c] ELSE c

Lower(s) == [i \in DOMAIN s |-> LowerChar(s[i])]

RECURSIVE RemoveSpace(_)
\* re.sub(r'\s+', '', s)
RemoveSpace(s) ==
    IF s = <<>> THEN <<>>
    ELSE IF IsSpace(Head(s)) THEN RemoveSpace(Tail(s))
    ELSE <<Head(s)>> \o RemoveSpace(Tail(s))

RECURSIVE LStripZero(_)
\* s.lstrip('0')
LStripZero(s) ==
    IF s # <<>> /\ Head(s) = "0" THEN LStripZero(Tail(s)) ELSE s

RECURSIVE LStrip(_)
LStrip(s) == IF s # <<>> /\ IsSpace(Head(s)) THEN LStrip(Tail(s)) ELSE s

RECURSIVE RStrip(_)
RStrip(s) ==
    IF s # <<>> /\ IsSpace(s[Len(s)]) THEN RStrip(SubSeq(s, 1, Len(s) - 1)) ELSE s

\* s.strip()
Strip(s) == RStrip(LStrip(s))

\* \b at the gap before position i of s (i in 1..Len(s)+1).
WordBoundary(s, i) ==
    LET before == i > 1 /\ IsWord(s[i - 1])
        after == i <= Len(s) /\ IsWord(s[i])
    IN before # after

\* The pattern \b<word>\b matches s at position i.
SuffixAt(s, i, word) ==
    /\ i + Len(word) - 1 <= Len(s)
    /\ SubSeq(s, i, i + Len(word) - 1) = word
    /\ WordBoundary(s, i)
    /\ WordBoundary(s, i + Len(word))

RECURSIVE RemoveWordFrom(_, _, _)
\* re.sub(r'\b<word>\b', '', s): one left-to-right pass over s from position i.
RemoveWordFrom(s, i, word) ==
    IF i > Len(s) THEN <<>>
    ELSE IF SuffixAt(s, i, word) THEN RemoveWordFrom(s, i + Len(word), word)
    ELSE <<s[i]>> \o RemoveWordFrom(s, i + 1, word)

\* The list `suffixes` of line 92, in its order.
suffixes ==
    << <<"o", "y">>, <<"a", "b">>, <<"l", "t", "d">>, <<"i", "n", "c">>,
       <<"g", "m", "b", "h">>, <<"t", "m", "i">> >>

RECURSIVE RemoveSuffixes(_, _)
\* The loop of lines 93-94.
RemoveSuffixes(s, j) ==
    IF j > Len(suffixes) THEN s
    ELSE Then(RemoveWordFrom(s, 1, suffixes[j]), LAMBDA removed : RemoveSuffixes(removed, j + 1))

RECURSIVE PunctToSpace(_)
\* re.sub(r'[^a-z0-9äöå]+', ' ', s): each run of other characters becomes one space.
PunctToSpace(s) ==
    IF s = <<>> THEN <<>>
    ELSE IF IsKept(Head(s)) THEN <<Head(s)>> \o PunctToSpace(Tail(s))
    ELSE IF Len(s) > 1 /\ ~IsKept(s[2]) THEN PunctToSpace(Tail(s))
    ELSE <<" ">> \o PunctToSpace(Tail(s))

\* ---------------------------------------------------------------- normalizers

\* A variant that keeps the leading zeros (no lstrip('0')).
normalize_ref_keeps_zeros(ref) ==
    IF IsRaise(ref) THEN ref
    ELSE IF ~Truthy(ref) THEN None
    ELSE IF ref.k # "str" THEN Raise("TypeError")
    ELSE Then(RemoveSpace(ref.s), LAMBDA unspaced :
              IF unspaced = <<>> THEN None ELSE Str(unspaced))

_normalize_ref(ref) ==
    IF IsRaise(ref) THEN ref
    ELSE IF ~Truthy(ref) THEN None
    ELSE IF ref.k # "str" THEN Raise("TypeError")
    ELSE Then(RemoveSpace(ref.s), LAMBDA unspaced :
         Then(LStripZero(unspaced), LAMBDA stripped :
              IF stripped = <<>> THEN None ELSE Str(stripped)))

_normalize_name(name_arg) ==
    IF IsRaise(name_arg) THEN name_arg
    ELSE IF ~Truthy(name_arg) THEN None
    ELSE IF name_arg.k # "str" THEN Raise("AttributeError")
    ELSE Then(Lower(name_arg.s), LAMBDA lowered :
         Then(RemoveSuffixes(lowered, 1), LAMBDA stripped :
         Then(PunctToSpace(stripped), LAMBDA spaced : Str(Strip(spaced)))))

\* ---------------------------------------------------------------- records

\* A transaction: dict.get gives None for a key that is absent or null.
Tx(amount, date, contact, reference) ==
    [amount |-> amount, date |-> date, contact |-> contact, reference |-> reference]

\* An attachment's data payload.
Data(reference, total_amount, invoicing_date, due_date, receiving_date, supplier, issuer, recipient) ==
    [k |-> "dict", reference |-> reference, total_amount |-> total_amount,
     invoicing_date |-> invoicing_date, due_date |-> due_date,
     receiving_date |-> receiving_date, supplier |-> supplier,
     issuer |-> issuer, recipient |-> recipient]

\* An attachment: data is a payload, None (null) or Missing (no such key).
Att(data) == [data |-> data]

EmptyDict == Data(None, None, None, None, None, None, None, None)

\* att.get('data', {}): the default only replaces a key that is absent.
GetData(att) == IF att.data.k = "missing" THEN EmptyDict ELSE att.data

\* d.get(key) on what GetData returned: only a dict has .get.
DictGet(d, key) == IF d.k = "dict" THEN d[key] ELSE Raise("AttributeError")

\* ---------------------------------------------------------------- constants

\* DATE_WINDOW = timedelta(days=14), in days.
DATE_WINDOW == 14

CONFIDENCE_THRESHOLD == 2

OUR_COMPANY_NAME ==
    Str(<< "E", "x", "a", "m", "p", "l", "e", " ", "C", "o", "m", "p", "a", "n", "y",
           " ", "O", "y" >>)

\* ---------------------------------------------------------------- counterparties

RECURSIVE PartiesLoop(_, _, _, _)
\* The loop of lines 121-124 over raw_parties from index i, `normalized` so far.
PartiesLoop(raw_parties, i, own_name, normalized) ==
    IF i > Len(raw_parties) THEN [k |-> "set", e |-> normalized]
    ELSE Then(_normalize_name(raw_parties[i]), LAMBDA norm :
            IF IsRaise(norm) THEN norm
            ELSE IF Truthy(norm) /\ norm # own_name
            THEN Then(normalized \cup {norm}, LAMBDA added :
                      PartiesLoop(raw_parties, i + 1, own_name, added))
            ELSE PartiesLoop(raw_parties, i + 1, own_name, normalized))

\* Line 118: the value is the same at every call.
our_name_norm == _normalize_name(OUR_COMPANY_NAME)

_get_att_counterparties(att) ==
    LET att_data == GetData(att)
    IN IF att_data.k # "dict" THEN Raise("AttributeError")
       ELSE PartiesLoop(<<att_data.supplier, att_data.issuer, att_data.recipient>>, 1,
                        our_name_norm, {})

\* ---------------------------------------------------------------- amount

DigitVal(c) == (CHOOSE i \in DOMAIN DigitSeq : DigitSeq[i] = c) - 1

IsDigits(s) == s # <<>> /\ \A i \in DOMAIN s : s[i] \in Digits

RECURSIVE DigitsValue(_)
DigitsValue(s) ==
    IF s = <<>> THEN 0
    ELSE 10 * DigitsValue(SubSeq(s, 1, Len(s) - 1)) + DigitVal(s[Len(s)])

\* float(text) for the texts drawn here: surrounding whitespace, an optional
\* sign and decimal digits; any other text is a ValueError.
ParseFloat(s) ==
    LET t == Strip(s)
        signed == t # <<>> /\ Head(t) \in {"+", "-"}
        digits == IF signed THEN Tail(t) ELSE t
    IN IF ~IsDigits(digits) THEN Raise("ValueError")
       ELSE IF signed /\ Head(t) = "-" THEN Num(0 - DigitsValue(digits))
       ELSE Num(DigitsValue(digits))

\* float(v)
Float(v) ==
    CASE v.k = "raise" -> v
      [] v.k = "num" -> v
      [] v.k = "bool" -> Num(IF v.b THEN 1 ELSE 0)
      [] v.k = "bigint" -> Raise("OverflowError")
      [] v.k = "str" -> ParseFloat(v.s)
      [] OTHER -> Raise("TypeError")

Abs(n) == IF n < 0 THEN 0 - n ELSE n

\* The classes the except clause of line 140 catches.
AmountCaught(v) == IsRaise(v) /\ v.exc \in {"TypeError", "ValueError", "AttributeError"}

\* A variant that compares the signed values (no abs()).
check_amount_match_signed(tx, att) ==
    Then(Float(tx.amount), LAMBDA tx_amount :
    Then(Float(DictGet(GetData(att), "total_amount")), LAMBDA att_amount :
       IF AmountCaught(tx_amount) THEN Bool(FALSE)
       ELSE IF IsRaise(tx_amount) THEN tx_amount
       ELSE IF AmountCaught(att_amount) THEN Bool(FALSE)
       ELSE IF IsRaise(att_amount) THEN att_amount
       ELSE Bool(tx_amount.n = att_amount.n)))

_check_amount_match(tx, att) ==
    Then(Float(tx.amount), LAMBDA tx_amount :
    Then(Float(DictGet(GetData(att), "total_amount")), LAMBDA att_amount :
       IF AmountCaught(tx_amount) THEN Bool(FALSE)
       ELSE IF IsRaise(tx_amount) THEN tx_amount
       ELSE IF AmountCaught(att_amount) THEN Bool(FALSE)
       ELSE IF IsRaise(att_amount) THEN att_amount
       ELSE Bool(Abs(tx_amount.n) = Abs(att_amount.n))))

\* ---------------------------------------------------------------- dates

IsLeap(y) == y % 4 = 0 /\ (y % 100 # 0 \/ y % 400 = 0)

DaysInMonth(y, m) ==
    IF m = 2 THEN (IF IsLeap(y) THEN 29 ELSE 28)
    ELSE IF m \in {4, 6, 9, 11} THEN 30 ELSE 31

RECURSIVE DaysBeforeMonth(_, _)
DaysBeforeMonth(y, m) ==
    IF m = 1 THEN 0 ELSE DaysBeforeMonth(y, m - 1) + DaysInMonth(y, m - 1)

\* date.toordinal(): the day number that date subtraction works on.
Ordinal(y, m, d) ==
    LET p == y - 1
    IN p * 365 + (p \div 4) - (p \div 100) + (p \div 400) + DaysBeforeMonth(y, m) + d

\* datetime.fromisoformat(text).date() for YYYY-MM-DD and YYYY-MM-DDTHH:MM;
\* the result is the date's ordinal, the time of day is dropped.
ParseIsoDate(s) ==
    LET wellFormed ==
            /\ Len(s) \in {10, 16}
            /\ IsDigits(SubSeq(s, 1, 4)) /\ s[5] = "-"
            /\ IsDigits(SubSeq(s, 6, 7)) /\ s[8] = "-"
            /\ IsDigits(SubSeq(s, 9, 10))
            /\ Len(s) = 16 =>
                 /\ s[11] = "T" /\ IsDigits(SubSeq(s, 12, 13)) /\ s[14] = ":"
                 /\ IsDigits(SubSeq(s, 15, 16))
                 /\ DigitsValue(SubSeq(s, 12, 13)) < 24
                 /\ DigitsValue(SubSeq(s, 15, 16)) < 60
        y == DigitsValue(SubSeq(s, 1, 4))
        m == DigitsValue(SubSeq(s, 6, 7))
        d == DigitsValue(SubSeq(s, 9, 10))
    IN IF wellFormed /\ y >= 1 /\ m \in 1..12 /\ d >= 1 /\ d <= DaysInMonth(y, m)
       THEN [k |-> "date", ord |-> Ordinal(y, m, d)]
       ELSE Raise("ValueError")

\* datetime.fromisoformat(v).date()
FromIsoFormat(v) ==
    IF IsRaise(v) THEN v
    ELSE IF v.k # "str" THEN Raise("TypeError")
    ELSE ParseIsoDate(v.s)

RECURSIVE DatesLoopExclusive(_, _, _)
\* A variant whose window is exclusive (< DATE_WINDOW).
DatesLoopExclusive(tx_date, att_dates_str, i) ==
    IF i > Len(att_dates_str) THEN FALSE
    ELSE Then(FromIsoFormat(att_dates_str[i]), LAMBDA att_date :
            IF ~Truthy(att_dates_str[i]) THEN DatesLoopExclusive(tx_date, att_dates_str, i + 1)
            ELSE IF IsRaise(att_date) THEN DatesLoopExclusive(tx_date, att_dates_str, i + 1)
            ELSE IF Abs(tx_date.ord - att_date.ord) < DATE_WINDOW THEN TRUE
            ELSE DatesLoopExclusive(tx_date, att_dates_str, i + 1))

RECURSIVE DatesLoop(_, _, _)
\* The loop of lines 169-178 over att_dates_str from index i.
DatesLoop(tx_date, att_dates_str, i) ==
    IF i > Len(att_dates_str) THEN FALSE
    ELSE Then(FromIsoFormat(att_dates_str[i]), LAMBDA att_date :
            IF ~Truthy(att_dates_str[i]) THEN DatesLoop(tx_date, att_dates_str, i + 1)
            ELSE IF IsRaise(att_date) THEN DatesLoop(tx_date, att_dates_str, i + 1)
            ELSE IF Abs(tx_date.ord - att_date.ord) <= DATE_WINDOW THEN TRUE
            ELSE DatesLoop(tx_date, att_dates_str, i + 1))

_check_date_match(tx, att) ==
    LET tx_date_str == tx.date
        att_data == GetData(att)
    IN Then(FromIsoFormat(tx_date_str), LAMBDA tx_date :
       IF ~Truthy(tx_date_str) THEN Bool(FALSE)
       ELSE IF IsRaise(tx_date) THEN Bool(FALSE)
       ELSE IF att_data.k # "dict" THEN Raise("AttributeError")
       ELSE Bool(DatesLoop(tx_date,
                           <<att_data.invoicing_date, att_data.due_date,
                             att_data.receiving_date>>, 1)))

\* ---------------------------------------------------------------- counterparty

_check_counterparty_match(tx, att) ==
    Then(_normalize_name(tx.contact), LAMBDA tx_party_norm :
       IF IsRaise(tx_party_norm) THEN tx_party_norm
       ELSE IF ~Truthy(tx_party_norm) THEN Bool(FALSE)
       ELSE Then(_get_att_counterparties(att), LAMBDA att_parties_norm :
               IF IsRaise(att_parties_norm) THEN att_parties_norm
               ELSE IF att_parties_norm.e = {} THEN Bool(FALSE)
               ELSE Bool(tx_party_norm \in att_parties_norm.e)))

\* ---------------------------------------------------------------- core matcher

\* A returned candidate is identified by its place in the list: the function
\* returns the list's own object.
Cand(i) == [k |-> "cand", i |-> i]

\* The reference of the item (lines 231-236) or of a candidate (lines 241-247):
\* an attachment keeps it in its data payload.
ReadRef(record, is_att) ==
    IF is_att THEN _normalize_ref(DictGet(GetData(record), "reference"))
    ELSE _normalize_ref(record.reference)

RECURSIVE RefStageLast(_, _, _, _)
\* A variant that keeps scanning and returns the last equal candidate.
RefStageLast(ref_to_match, cands, is_tx_to_att, i) ==
    IF i > Len(cands) THEN None
    ELSE Then(ReadRef(cands[i], is_tx_to_att), LAMBDA candidate_ref :
            IF IsRaise(candidate_ref) THEN candidate_ref
            ELSE Then(RefStageLast(ref_to_match, cands, is_tx_to_att, i + 1), LAMBDA later :
                    IF later.k # "none" THEN later
                    ELSE IF Truthy(candidate_ref) /\ ref_to_match = candidate_ref THEN Cand(i)
                    ELSE None))

RECURSIVE RefStage(_, _, _, _)
\* Stage 1, the loop of lines 240-250 from candidate i: the golden match, a
\* raised exception, or None when the loop ends without a return.
RefStage(ref_to_match, cands, is_tx_to_att, i) ==
    IF i > Len(cands) THEN None
    ELSE Then(ReadRef(cands[i], is_tx_to_att), LAMBDA candidate_ref :
            IF IsRaise(candidate_ref) THEN candidate_ref
            ELSE IF Truthy(candidate_ref) /\ ref_to_match = candidate_ref THEN Cand(i)
            ELSE RefStage(ref_to_match, cands, is_tx_to_att, i + 1))

\* A variant without the veto: the score is always the number of true signals.
score_without_veto(tx, att) ==
    Then(_check_amount_match(tx, att), LAMBDA amount_match :
    IF IsRaise(amount_match) THEN amount_match ELSE
    Then(_check_date_match(tx, att), LAMBDA date_match :
    IF IsRaise(date_match) THEN date_match ELSE
    Then(_check_counterparty_match(tx, att), LAMBDA name_match :
    IF IsRaise(name_match) THEN name_match ELSE
        Num((IF amount_match.b THEN 1 ELSE 0)
            + (IF date_match.b THEN 1 ELSE 0)
            + (IF name_match.b THEN 1 ELSE 0)))))

\* Lines 267-289: the three signals, the veto and the score of one pair.
score(tx, att) ==
    Then(_check_amount_match(tx, att), LAMBDA amount_match :
    IF IsRaise(amount_match) THEN amount_match ELSE
    Then(_check_date_match(tx, att), LAMBDA date_match :
    IF IsRaise(date_match) THEN date_match ELSE
    Then(_check_counterparty_match(tx, att), LAMBDA name_match :
    IF IsRaise(name_match) THEN name_match ELSE
    Then(_normalize_name(tx.contact), LAMBDA tx_name_norm :
    IF IsRaise(tx_name_norm) THEN tx_name_norm ELSE
    Then(_get_att_counterparties(att), LAMBDA att_names_norm :
    IF IsRaise(att_names_norm) THEN att_names_norm ELSE
        LET name_check_possible ==
                tx_name_norm.k # "none" /\ Cardinality(att_names_norm.e) > 0
        IN IF name_check_possible /\ ~name_match.b THEN Num(0)
           ELSE Num((IF amount_match.b THEN 1 ELSE 0)
                    + (IF date_match.b THEN 1 ELSE 0)
                    + (IF name_match.b THEN 1 ELSE 0)))))))

RECURSIVE ScoreStageFirstOfTie(_, _, _, _, _, _)
\* A variant that never records a tie (no elif branch): the first candidate
\* to reach the highest score stays the only best candidate.
ScoreStageFirstOfTie(item, cands, is_tx_to_att, i, highest_score, best_candidates) ==
    IF i > Len(cands)
    THEN IF highest_score >= CONFIDENCE_THRESHOLD /\ Len(best_candidates) = 1
         THEN Cand(best_candidates[1])
         ELSE None
    ELSE Then(IF is_tx_to_att THEN score(item, cands[i]) ELSE score(cands[i], item),
              LAMBDA sc :
            IF IsRaise(sc) THEN sc
            ELSE IF sc.n > highest_score
            THEN ScoreStageFirstOfTie(item, cands, is_tx_to_att, i + 1, sc.n, <<i>>)
            ELSE ScoreStageFirstOfTie(item, cands, is_tx_to_att, i + 1, highest_score,
                                      best_candidates))

RECURSIVE ScoreStage(_, _, _, _, _, _)
\* Stage 2, the loop of lines 260-296 from candidate i, with highest_score and
\* best_candidates so far; then stage 3, lines 306-309.
ScoreStage(item, cands, is_tx_to_att, i, highest_score, best_candidates) ==
    IF i > Len(cands)
    THEN IF highest_score >= CONFIDENCE_THRESHOLD /\ Len(best_candidates) = 1
         THEN Cand(best_candidates[1])
         ELSE None
    ELSE Then(IF is_tx_to_att THEN score(item, cands[i]) ELSE score(cands[i], item),
              LAMBDA sc :
            IF IsRaise(sc) THEN sc
            ELSE IF sc.n > highest_score
            THEN ScoreStage(item, cands, is_tx_to_att, i + 1, sc.n, <<i>>)
            ELSE IF sc.n = highest_score
            THEN Then(Append(best_candidates, i), LAMBDA tied :
                      ScoreStage(item, cands, is_tx_to_att, i + 1, highest_score, tied))
            ELSE ScoreStage(item, cands, is_tx_to_att, i + 1, highest_score, best_candidates))

\* A variant in which a reference that matches no candidate ends the search:
\* None is returned without scoring.
find_best_match_ref_decides(item, cands, is_tx_to_att) ==
    Then(ReadRef(item, ~is_tx_to_att), LAMBDA ref_to_match :
       IF IsRaise(ref_to_match) THEN ref_to_match
       ELSE IF Truthy(ref_to_match) THEN RefStage(ref_to_match, cands, is_tx_to_att, 1)
       ELSE ScoreStage(item, cands, is_tx_to_att, 1, 0, <<>>))

_find_best_match(item, cands, is_tx_to_att) ==
    Then(ReadRef(item, ~is_tx_to_att), LAMBDA ref_to_match :
       IF IsRaise(ref_to_match) THEN ref_to_match
       ELSE Then(IF Truthy(ref_to_match)
                 THEN RefStage(ref_to_match, cands, is_tx_to_att, 1)
                 ELSE None,
                 LAMBDA golden :
                    IF golden.k # "none" THEN golden
                    ELSE ScoreStage(item, cands, is_tx_to_att, 1, 0, <<>>)))

find_attachment(transaction, attachments) ==
    _find_best_match(transaction, attachments, TRUE)

find_transaction(attachment, transactions) ==
    _find_best_match(attachment, transactions, FALSE)

\* ---------------------------------------------------------------- inputs

TwoDigits(n) == <<DigitSeq[(n \div 10) + 1], DigitSeq[(n % 10) + 1]>>

\* The text YYYY-MM-DD of a date, as date.isoformat() writes it.
IsoDate(y, m, d) ==
    Str(TwoDigits(y \div 100) \o TwoDigits(y % 100) \o <<"-">> \o TwoDigits(m)
        \o <<"-">> \o TwoDigits(d))

\* The text YYYY-MM-DDTHH:MM of a date and a time of day.
IsoDateTime(y, m, d, hh, mm) ==
    Str(IsoDate(y, m, d).s \o <<"T">> \o TwoDigits(hh) \o <<":">> \o TwoDigits(mm))

Garbage == Str(<<"g", "a", "r", "b", "a", "g", "e">>)

TxDay == IsoDate(2024, 3, 1)

Day14 == IsoDate(2024, 3, 15)

Day15 == IsoDate(2024, 3, 16)

AcmeOy == Str(<<"A", "c", "m", "e", " ", "O", "y">>)

Acme == Str(<<"a", "c", "m", "e">>)

Globex == Str(<<"G", "l", "o", "b", "e", "x">>)

OnlySuffix == Str(<<"O", "y", ".">>)

Ref007 == Str(<<"0", "0", "7">>)

Ref7 == Str(<<"7">>)

Ref7Spaced == Str(<<" ", "7", " ">>)

Ref0Space7 == Str(<<"0", " ", "7">>)

Ref9 == Str(<<"9">>)

RefZeros == Str(<<"0", "0">>)

RefBlank == Str(<<" ">>)

IsTx(record) == "amount" \in DOMAIN record

\* Transactions and attachments whose references vary: the pairs score
\* 3 (all agree), 2 (amounts differ) or 0 (the contact Globex is vetoed).
RefTxs ==
    {Tx(Num(0 - 50), TxDay, contact, reference) :
        contact \in {AcmeOy, Globex},
        reference \in {None, RefZeros, Ref007, Ref9}}
    \cup {Tx(Num(0 - 50), TxDay, AcmeOy, Ref7Spaced)}

RefAtts ==
    {Att(Data(reference, total_amount, Day14, None, None, Acme, None, None)) :
        reference \in {None, RefZeros, Ref0Space7, Ref9},
        total_amount \in {Num(50), Num(75)}}
    \cup {Att(Data(RefBlank, Num(50), Day14, None, None, Acme, None, None))}

\* Transactions and attachments whose signals vary one by one.
ScoreTxs ==
    {Tx(Num(0 - 50), TxDay, contact, None) : contact \in {None, OnlySuffix, AcmeOy, Globex}}
    \cup {Tx(None, TxDay, None, None),
          Tx(None, TxDay, AcmeOy, None),
          Tx(Num(50), None, Str(<<>>), None),
          Tx(Num(0 - 50), TxDay, AcmeOy, Ref007)}

ScoreAtts ==
    {Att(Data(None, Num(50), invoicing_date, None, None, supplier, None, None)) :
        invoicing_date \in {Day14, Day15},
        supplier \in {None, Acme}}
    \cup {Att(Data(None, Num(75), Day14, None, None, None, None, None)),
          Att(Data(None, Num(75), Day14, None, None, Acme, None, OUR_COMPANY_NAME)),
          Att(Data(Ref7, Num(50), Day15, None, None, None, OUR_COMPANY_NAME, None)),
          Att(Missing)}

\* Records of every shape: fields missing, null, or of another type.
ShapeTxs ==
    {Tx(None, None, None, None),
     Tx(Num(0 - 50), TxDay, Acme, Ref7),
     Tx(Num(0 - 50), TxDay, Acme, Num(7)),
     Tx(Num(0 - 50), TxDay, Num(5), None),
     Tx(Garbage, Garbage, None, None),
     Tx(BigInt, TxDay, None, None),
     Tx(Num(0 - 50), Num(20240301), None, RefZeros)}

ShapeAtts ==
    {Att(Missing),
     Att(None),
     Att(EmptyDict),
     Att(Data(Ref7, Num(50), Day14, None, None, Acme, None, None)),
     Att(Data(Num(7), Num(50), Day14, None, None, None, None, None)),
     Att(Data(None, Num(50), Day14, None, None, Num(5), None, None)),
     Att(Data(None, Garbage, Garbage, Num(5), None, None, None, None))}

\* ---------------------------------------------------------------- matching runs

\* One call: an item and a list of up to MaxCands candidates of the other kind.
InitWith(txs, atts) ==
    /\ \E n \in 0..MaxCands :
          \/ item_to_match \in txs /\ candidates \in [1..n -> atts]
          \/ item_to_match \in atts /\ candidates \in [1..n -> txs]
    /\ name = None
    /\ called = "none"
    /\ result = None

\* result = find_attachment(transaction, attachments)
CallFindAttachment ==
    /\ called = "none"
    /\ IsTx(item_to_match)
    /\ called' = "find_attachment"
    /\ result' = find_attachment(item_to_match, candidates)
    /\ UNCHANGED <<item_to_match, candidates, name>>

\* result = find_transaction(attachment, transactions)
CallFindTransaction ==
    /\ called = "none"
    /\ ~IsTx(item_to_match)
    /\ called' = "find_transaction"
    /\ result' = find_transaction(item_to_match, candidates)
    /\ UNCHANGED <<item_to_match, candidates, name>>

Next == CallFindAttachment \/ CallFindTransaction

Init == InitWith(ScoreTxs, ScoreAtts)

Spec == Init /\ [][Next]_vars

InitRef == InitWith(RefTxs, RefAtts)

SpecRef == InitRef /\ [][Next]_vars

InitShapes == InitWith(ShapeTxs, ShapeAtts)

SpecShapes == InitShapes /\ [][Next]_vars

Matched == called \in {"find_attachment", "find_transaction"}

is_tx_to_att == IsTx(item_to_match)

\* The transaction and the attachment of the pair (item, candidate i), lines 262-265.
PairTx(i) == IF is_tx_to_att THEN item_to_match ELSE candidates[i]

PairAtt(i) == IF is_tx_to_att THEN candidates[i] ELSE item_to_match

PairScore(i) == score(PairTx(i), PairAtt(i))

ItemRef == ReadRef(item_to_match, ~is_tx_to_att)

CandRef(i) == ReadRef(candidates[i], is_tx_to_att)

\* Candidate i matches the item by reference: both normalized references are
\* present and equal.
RefMatches(i) ==
    /\ ItemRef.k = "str" /\ ItemRef.s # <<>>
    /\ CandRef(i).k = "str" /\ CandRef(i).s # <<>>
    /\ ItemRef.s = CandRef(i).s

\* The score of every candidate of the list.
Scores == [i \in DOMAIN candidates |-> PairScore(i).n]

\* In the scores sc, candidate i has a score of at least 2 that every other
\* entry stays below.
UniqueBest(sc, i) ==
    /\ sc[i] >= 2
    /\ \A j \in DOMAIN sc : j # i => sc[j] < sc[i]

\* ---------------------------------------------------------------- matching claims

GoldenCandidates == {i \in DOMAIN candidates : RefMatches(i)}

Min(S) == CHOOSE m \in S : \A n \in S : m <= n

\* C1: when the item's normalized reference is present and some candidate's
\* normalized reference is present and equal to it, the result is the first
\* such candidate of the list, whatever the scores are.
GoldenMatchIsFirstEqual ==
    (Matched /\ GoldenCandidates # {}) => result = Cand(Min(GoldenCandidates))

\* A golden match is returned although the veto gives it score 0 and another
\* candidate scores 3.
GoldenMatchWitness ==
    /\ Matched
    /\ \E sc \in {Scores} : \E i, j \in DOMAIN candidates :
          /\ result = Cand(i) /\ RefMatches(i) /\ sc[i] = 0
          /\ sc[j] = 3 /\ ~RefMatches(j)

\* C2: when no candidate matches the item by reference, the result is
\* candidate c exactly when c's score is at least 2 and every other entry of
\* the list scores strictly lower; otherwise the result is None.
AcceptanceRule ==
    (Matched /\ GoldenCandidates = {}) =>
        \A sc \in {Scores} :
            /\ \A c \in DOMAIN candidates : (result = Cand(c)) <=> UniqueBest(sc, c)
            /\ result = None <=> ~\E c \in DOMAIN candidates : UniqueBest(sc, c)

\* Two candidates tie at the maximum score, which is at least 2, and nothing
\* is returned.
AcceptanceTieWitness ==
    /\ Matched /\ GoldenCandidates = {} /\ result = None
    /\ \E sc \in {Scores} : \E i, j \in DOMAIN candidates :
          /\ i # j /\ sc[i] >= 2 /\ sc[i] = sc[j]
          /\ \A m \in DOMAIN candidates : sc[m] <= sc[i]

\* The transaction's normalized contact is present, the attachment names
\* counterparties, and the contact is not one of them.
NameMismatch(tx, att) ==
    \E contact \in {_normalize_name(tx.contact)} :
        /\ Truthy(contact)
        /\ \E parties \in {_get_att_counterparties(att).e} :
              parties # {} /\ contact \notin parties

\* C3: a pair whose names were comparable and disagree scores 0 whatever the
\* amount and date signals are, and without a reference match it is never
\* the result.
VetoForcesZero ==
    Matched =>
        \A i \in DOMAIN candidates :
            NameMismatch(PairTx(i), PairAtt(i)) =>
                /\ PairScore(i) = Num(0)
                /\ ~RefMatches(i) => result # Cand(i)

\* The only candidate agrees on amount and date, is vetoed, and None is returned.
VetoWitness ==
    /\ Matched /\ Len(candidates) = 1 /\ result = None
    /\ NameMismatch(PairTx(1), PairAtt(1))
    /\ _check_amount_match(PairTx(1), PairAtt(1)).b
    /\ _check_date_match(PairTx(1), PairAtt(1)).b

\* The number of true signals among amount and date.
AmountDateCount(tx, att) ==
    (IF _check_amount_match(tx, att).b THEN 1 ELSE 0)
    + (IF _check_date_match(tx, att).b THEN 1 ELSE 0)

\* No meaningful name comparison: the contact is missing, empty or normalizes
\* to the empty string, or the attachment's counterparty set is empty.
NoNameComparison(tx, att) ==
    \/ ~Truthy(_normalize_name(tx.contact))
    \/ _get_att_counterparties(att).e = {}

\* C4: without a meaningful name comparison the veto does not apply: the
\* score is the number of true signals among amount and date.
NoVetoWithoutComparison ==
    Matched =>
        \A i \in DOMAIN candidates :
            NoNameComparison(PairTx(i), PairAtt(i)) =>
                PairScore(i) = Num(AmountDateCount(PairTx(i), PairAtt(i)))

\* C5: the public operations return one of the candidates or None; no
\* exception escapes them.
NoExceptionEscapes ==
    Matched => (result = None \/ (result.k = "cand" /\ result.i \in DOMAIN candidates))

\* The reference text as the record holds it, before normalization.
RawRef(record, is_att) ==
    IF is_att THEN DictGet(GetData(record), "reference") ELSE record.reference

\* A reference that is missing, empty, whitespace-only or all zeros.
AbsentRef(v) ==
    \/ v = None
    \/ /\ v.k = "str"
       /\ \/ \A i \in DOMAIN v.s : IsSpace(v.s[i])
          \/ \A i \in DOMAIN v.s : v.s[i] = "0"

\* C7: a pair in which the item's or the candidate's reference is absent is
\* never a golden match: when such a candidate is the result, scoring chose it.
AbsentRefNeverGolden ==
    \A i \in DOMAIN candidates :
        (/\ Matched
         /\ result = Cand(i)
         /\ \/ AbsentRef(RawRef(item_to_match, ~is_tx_to_att))
            \/ AbsentRef(RawRef(candidates[i], is_tx_to_att)))
        => UniqueBest(Scores, i)

\* Both references are all zeros, the pair is vetoed, and it is not returned.
AbsentRefWitness ==
    /\ Matched /\ Len(candidates) = 1 /\ result = None
    /\ RawRef(item_to_match, ~is_tx_to_att) = RefZeros
    /\ RawRef(candidates[1], is_tx_to_att) = RefZeros
    /\ PairScore(1).n = 0

\* The item with its reference removed.
WithoutRef(record) ==
    IF IsTx(record) THEN [record EXCEPT !.reference = None]
    ELSE [record EXCEPT !.data.reference = None]

\* C10: when the item has a reference that no candidate's reference equals,
\* the result is what the item without a reference gets, and a candidate with
\* a conflicting reference is returned when it is the unique best.
RefMismatchIsNoVeto ==
    (Matched /\ Truthy(ItemRef) /\ GoldenCandidates = {}) =>
        /\ result = _find_best_match(WithoutRef(item_to_match), candidates, is_tx_to_att)
        /\ \A sc \in {Scores} : \A i \in DOMAIN candidates :
              UniqueBest(sc, i) => result = Cand(i)

\* A candidate whose present reference differs from the item's is returned.
RefMismatchWitness ==
    /\ Matched /\ Truthy(ItemRef)
    /\ \E i \in DOMAIN candidates :
          /\ result = Cand(i) /\ Truthy(CandRef(i)) /\ CandRef(i) # ItemRef

\* ---------------------------------------------------------------- date runs

DateTxs ==
    {Tx(None, date, None, None) :
        date \in {TxDay, IsoDate(2024, 1, 1), IsoDateTime(2024, 3, 1, 23, 59), None, Garbage}}

AttDateTexts ==
    {IsoDate(y, m, d) : y \in {2023, 2024}, m \in {1, 2, 3, 12}, d \in {1, 15, 16, 17, 18, 30, 31}}
    \cup {None, Garbage, Num(20240315), IsoDateTime(2024, 3, 15, 0, 0)}

DateAtts ==
    {Att(Data(None, None, invoicing_date, due_date, receiving_date, None, None, None)) :
        invoicing_date \in AttDateTexts,
        due_date \in {None, Garbage, Day14, Day15},
        receiving_date \in {None, IsoDate(2024, 2, 16), IsoDate(2024, 2, 30)}}

InitDate ==
    /\ item_to_match \in DateTxs
    /\ candidates \in {<<att>> : att \in DateAtts}
    /\ name = None
    /\ called = "none"
    /\ result = None

\* result = _check_date_match(tx, att)
CheckDateMatch ==
    /\ called = "none"
    /\ called' = "_check_date_match"
    /\ result' = _check_date_match(item_to_match, candidates[1])
    /\ UNCHANGED <<item_to_match, candidates, name>>

SpecDate == InitDate /\ [][CheckDateMatch]_vars

\* The attachment's three date fields, in the order they are read.
AttDates(att) ==
    <<att.data.invoicing_date, att.data.due_date, att.data.receiving_date>>

Parseable(v) == Truthy(v) /\ ~IsRaise(FromIsoFormat(v))

\* The parseable date text v is k days after the parseable date text w.
DaysApart(v, w, k) == FromIsoFormat(v).ord = FromIsoFormat(w).ord + k

\* C8: with a parseable transaction date, the date signal is true exactly when
\* some parseable date of the attachment is at most 14 days before or after
\* it; fields that are missing or do not parse are skipped.
DateWindowBoundary ==
    (called = "_check_date_match" /\ Parseable(item_to_match.date)) =>
        LET dates == AttDates(candidates[1])
            within14 == \E i \in DOMAIN dates : \E k \in (0 - 14)..14 :
                            Parseable(dates[i]) /\ DaysApart(dates[i], item_to_match.date, k)
        IN result = Bool(within14)

\* The invoicing date does not parse, the due date is exactly 14 days after
\* the transaction date, no field is closer, and the signal is true.
DateWindowWitness ==
    /\ called = "_check_date_match" /\ result = Bool(TRUE)
    /\ Parseable(item_to_match.date)
    /\ LET dates == AttDates(candidates[1])
       IN /\ Truthy(dates[1]) /\ ~Parseable(dates[1])
          /\ Parseable(dates[2]) /\ DaysApart(dates[2], item_to_match.date, 14)
          /\ ~Parseable(dates[3])

\* ---------------------------------------------------------------- amount runs

MaxAmount == 2

NumericText == Str(<<" ", "-", "2", " ">>)

AmountValues ==
    {Num(n) : n \in (0 - MaxAmount)..MaxAmount} \cup {None, Garbage, Str(<<>>), NumericText}

AmountTxs == {Tx(amount, None, None, None) : amount \in AmountValues}

AmountAtts ==
    {Att(Data(None, total_amount, None, None, None, None, None, None)) :
        total_amount \in AmountValues}
    \cup {Att(None), Att(Missing)}

InitAmount ==
    /\ item_to_match \in AmountTxs
    /\ candidates \in {<<att>> : att \in AmountAtts}
    /\ name = None
    /\ called = "none"
    /\ result = None

\* result = _check_amount_match(tx, att)
CheckAmountMatch ==
    /\ called = "none"
    /\ called' = "_check_amount_match"
    /\ result' = _check_amount_match(item_to_match, candidates[1])
    /\ UNCHANGED <<item_to_match, candidates, name>>

SpecAmount == InitAmount /\ [][CheckAmountMatch]_vars

\* The attachment's total as the record holds it (None when there is no payload).
RawTotal(att) == IF att.data.k = "dict" THEN att.data.total_amount ELSE None

\* A number, or a text that reads as one.
IsNumeric(v) == v.k = "num" \/ (v.k = "str" /\ ~IsRaise(ParseFloat(v.s)))

NumericValue(v) == IF v.k = "num" THEN v.n ELSE ParseFloat(v.s).n

\* The same record with the sign of its numeric amount flipped.
FlipTx(tx) ==
    IF tx.amount.k = "num" THEN [tx EXCEPT !.amount = Num(0 - tx.amount.n)] ELSE tx

FlipAtt(att) ==
    IF att.data.k = "dict" /\ att.data.total_amount.k = "num"
    THEN [att EXCEPT !.data.total_amount = Num(0 - att.data.total_amount.n)]
    ELSE att

\* C9: the amount signal is true exactly when both values are numeric and
\* their magnitudes are equal, with no tolerance; it is false when a value is
\* missing or not numeric, and flipping a sign does not change it.
AmountMagnitudeExact ==
    called = "_check_amount_match" =>
        LET a == item_to_match.amount
            t == RawTotal(candidates[1])
        IN /\ (IsNumeric(a) /\ IsNumeric(t)) =>
                 result = Bool(NumericValue(a) = NumericValue(t)
                               \/ NumericValue(a) = 0 - NumericValue(t))
           /\ (~IsNumeric(a) \/ ~IsNumeric(t)) => result = Bool(FALSE)
           /\ _check_amount_match(FlipTx(item_to_match), candidates[1]) = result
           /\ _check_amount_match(item_to_match, FlipAtt(candidates[1])) = result

\* A negative transaction amount matches the positive total of the same magnitude.
AmountSignWitness ==
    /\ called = "_check_amount_match" /\ result = Bool(TRUE)
    /\ item_to_match.amount.k = "num" /\ item_to_match.amount.n < 0
    /\ RawTotal(candidates[1]) = Num(0 - item_to_match.amount.n)

\* ---------------------------------------------------------------- name runs

NameChars == {"a", "O", "y", " ", "_", "-", "é"}

RECURSIVE SeqsUpTo(_, _)
SeqsUpTo(S, n) ==
    IF n = 0 THEN {<<>>}
    ELSE LET shorter == SeqsUpTo(S, n - 1)
         IN shorter \cup {Append(s, c) : s \in shorter, c \in S}

NameInputs == {None} \cup {Str(s) : s \in SeqsUpTo(NameChars, MaxNameLen)}

InitName ==
    /\ name \in NameInputs
    /\ item_to_match = None
    /\ candidates = <<>>
    /\ called = "none"
    /\ result = None

\* result = _normalize_name(name)
NormalizeName ==
    /\ called = "none"
    /\ called' = "_normalize_name"
    /\ result' = _normalize_name(name)
    /\ UNCHANGED <<item_to_match, candidates, name>>

\* The returned value is normalized again: name, result = result, _normalize_name(result)
NormalizeNameAgain ==
    /\ called = "_normalize_name"
    /\ called' = "_normalize_name again"
    /\ name' = result
    /\ result' = _normalize_name(result)
    /\ UNCHANGED <<item_to_match, candidates>>

NextName == NormalizeName \/ NormalizeNameAgain

SpecName == InitName /\ [][NextName]_vars

\* C6: name normalization is idempotent: normalizing a value that
\* _normalize_name returned gives that value back.
NormalizeNameIdempotent ==
    called = "_normalize_name again" => result = name

====
